---------------------------- MODULE Spec2Model ----------------------------
(***************************************************************************)
(* Cash Horizon: the multi-agent workflow orchestrator                     *)
(* (backend/app/agents/orchestrator.py), the three analysis agents, the   *)
(* financial calculator they call and the category chart of the chart      *)
(* generator.                                                              *)
(*                                                                         *)
(* Money is kept in integer cents; a value the code rounds to two decimals *)
(* (round(x, 2)) is an integer number of cents, a runway in months rounded *)
(* to two decimals is an integer number of hundredths of a month.  Dates   *)
(* are day numbers; a calendar month is DaysPerMonth consecutive days.     *)
(***************************************************************************)
EXTENDS Integers, Sequences, FiniteSets, TLC

(***************************************************************************)
(* Bounds of the model.                                                    *)
(***************************************************************************)
\* longest transaction list handed to run_full_analysis
MaxTxns == 2

\* the longest transaction list a tool is called with
MaxToolTxns == 3

\* the clock of the session service stops after MaxTicks steps
MaxTicks == 4

\* the longest message history of a session
MaxMessages == 1

(***************************************************************************)
(* Program constants.                                                      *)
(***************************************************************************)
\* float('inf'), larger than every finite runway of the model
Infinity == 2000000000
\* timedelta(days=period_months * 30): days per month of the analysis window
DaysPerMonth == 30
\* datetime.utcnow(), as a day number (the middle of calendar month 10)
Today == 315
\* days from utcnow() to datetime.max (year 9999): a later date overflows
MaxDepletionDays == 2912000
\* days from datetime.min (year 1) to utcnow(): an earlier date overflows
MinDepletionDays == 739000
\* period_months=3 in predict_runway and advise
BurnPeriodMonths == 3
\* emergency_fund_months: 6 in advise
EmergencyFundMonths == 6

None == "None"
\* estimated_depletion_date: None
NoDate == -1

\* depletion_month = None: no point of the forecast is depleted
NoMonth == -1

\* period_months = None (or 0, as falsy): the analysis covers all time
AllTime == 0

\* settings.session_timeout, in seconds
SessionTimeout == 3600

Agents == {"financial_analyst", "runway_predictor", "investment_advisor"}

\* SeqOrder with the first two steps exchanged
SeqOrderRunwayFirst == <<"runway_predictor", "financial_analyst", "investment_advisor">>

\* the fixed order of the sequential workflow
SeqOrder == <<"financial_analyst", "runway_predictor", "investment_advisor">>

\* the members of the WorkflowType enum
WorkflowTypes == {"sequential", "parallel", "custom"}

\* the agent_type strings a caller may hand to run_single_agent; "advisor"
\* is not one run_single_agent knows
AgentTypeArgs == {"analyst", "runway", "investment", "advisor"}

(***************************************************************************)
(* Python dictionaries are functions on their key set.                     *)
(***************************************************************************)
EmptyDict == [k \in {} |-> None]

\* d.get(key, default)
Get(d, key, default) == IF key \in DOMAIN d THEN d[key] ELSE default

\* {**d, **e}
Merge(d, e) ==
    [k \in (DOMAIN d) \cup (DOMAIN e) |-> IF k \in DOMAIN e THEN e[k] ELSE d[k]]

Max2(a, b) == IF a >= b THEN a ELSE b

\* round(n / d) for d > 0, ties to the even neighbour as Python's round
RoundDiv(n, d) ==
    LET q == n \div d
        r == n % d
    IN  IF 2 * r < d THEN q
        ELSE IF 2 * r > d THEN q + 1
        ELSE IF q % 2 = 0 THEN q ELSE q + 1

RECURSIVE SumAmounts(_)
\* sum(float(t["amount"]) for t in txns)
SumAmounts(txns) ==
    IF txns = <<>> THEN 0
    ELSE Head(txns).amount + SumAmounts(Tail(txns))

OfType(txns, type) == SelectSeq(txns, LAMBDA t : t.type = type)

\* date.strftime("%Y-%m")
MonthKey(date) == date \div DaysPerMonth

MonthsOf(txns) == {MonthKey(txns[i].date) : i \in DOMAIN txns}

(***************************************************************************)
(* FinancialCalculator                                                     *)
(***************************************************************************)
\* calculate_balance counting only the transactions of the last 90 days
calculate_balance_recent(initial_capital, transactions) ==
    LET recent == SelectSeq(transactions,
                            LAMBDA t : t.date >= Today - 3 * DaysPerMonth)
        total_income == SumAmounts(OfType(recent, "income"))
        total_expenses == SumAmounts(OfType(recent, "expense"))
        current_balance == initial_capital + total_income - total_expenses
    IN  [current_balance |-> current_balance,
         initial_capital |-> initial_capital,
         total_income |-> total_income,
         total_expenses |-> total_expenses,
         net_change |-> total_income - total_expenses,
         balance_status |-> IF current_balance > 0 THEN "positive" ELSE "negative"]

calculate_balance(initial_capital, transactions) ==
    LET total_income == SumAmounts(OfType(transactions, "income"))
        total_expenses == SumAmounts(OfType(transactions, "expense"))
        current_balance == initial_capital + total_income - total_expenses
    IN  [current_balance |-> current_balance,
         initial_capital |-> initial_capital,
         total_income |-> total_income,
         total_expenses |-> total_expenses,
         net_change |-> total_income - total_expenses,
         balance_status |-> IF current_balance > 0 THEN "positive" ELSE "negative"]

\* NumMonths dividing by the length of the period asked for
NumMonthsOfPeriod(income, expenses, period_months) == period_months

\* num_months: the larger of the number of months with income and the
\* number of months with expenses, at least 1
NumMonths(income, expenses, period_months) ==
    Max2(Max2(Cardinality(MonthsOf(income)), Cardinality(MonthsOf(expenses))), 1)

calculate_burn_rate(transactions, period_months) ==
    IF transactions = <<>> THEN
        [burn_rate |-> 0, avg_monthly_expenses |-> 0, avg_monthly_income |-> 0,
         net_burn |-> 0, period_months |-> period_months, transaction_count |-> 0]
    ELSE
        LET cutoff_date == Today - period_months * DaysPerMonth
            recent == SelectSeq(transactions, LAMBDA t : t.date >= cutoff_date)
            income == OfType(recent, "income")
            expenses == SelectSeq(recent, LAMBDA t : t.type # "income")
            num_months == NumMonths(income, expenses, period_months)
            net == SumAmounts(expenses) - SumAmounts(income)
        IN  [burn_rate |-> RoundDiv(net, num_months),
             avg_monthly_expenses |-> RoundDiv(SumAmounts(expenses), num_months),
             avg_monthly_income |-> RoundDiv(SumAmounts(income), num_months),
             net_burn |-> RoundDiv(net, num_months),
             period_months |-> period_months,
             transaction_count |-> Len(recent),
             months_analyzed |-> num_months]

\* status of a runway of current_balance / monthly_burn_rate months
RunwayStatus(current_balance, monthly_burn_rate) ==
    IF current_balance < 3 * monthly_burn_rate THEN "critical"
    ELSE IF current_balance < 6 * monthly_burn_rate THEN "warning"
    ELSE IF current_balance < 12 * monthly_burn_rate THEN "healthy"
    ELSE "excellent"

\* InfiniteRunway reporting a balance that is not positive as depleted today
InfiniteRunwayIfFunded(current_balance, monthly_burn_rate) ==
    IF current_balance > 0 THEN
        [runway_months |-> Infinity, runway_days |-> Infinity,
         estimated_depletion_date |-> NoDate,
         current_balance |-> current_balance,
         monthly_burn_rate |-> monthly_burn_rate,
         status |-> "positive_cash_flow"]
    ELSE
        [runway_months |-> 0, runway_days |-> 0,
         estimated_depletion_date |-> Today,
         current_balance |-> current_balance,
         monthly_burn_rate |-> monthly_burn_rate,
         status |-> "critical"]

\* what calculate_runway returns for a burn rate that is not positive
InfiniteRunway(current_balance, monthly_burn_rate) ==
    [runway_months |-> Infinity, runway_days |-> Infinity,
     estimated_depletion_date |-> NoDate,
     current_balance |-> current_balance,
     monthly_burn_rate |-> monthly_burn_rate,
     status |-> "positive_cash_flow"]

\* an except clause that lets the exception reach the caller
ExceptReraise(e, result) == [raised |-> e]

\* except Exception as e: the error is logged and the fallback result returned
ExceptReturn(e, result) == result

calculate_runway(current_balance, monthly_burn_rate) ==
    IF monthly_burn_rate <= 0 THEN
        InfiniteRunway(current_balance, monthly_burn_rate)
    ELSE IF (current_balance * DaysPerMonth) \div monthly_burn_rate >= MaxDepletionDays
            \/ (current_balance * DaysPerMonth) \div monthly_burn_rate < - MinDepletionDays THEN
        \* utcnow() + timedelta(days=runway_days) raises OverflowError
        ExceptReturn("OverflowError",
                     [error |-> "OverflowError", runway_months |-> 0])
    ELSE
        [runway_months |-> RoundDiv(current_balance * 100, monthly_burn_rate),
         runway_days |-> RoundDiv(current_balance * DaysPerMonth, monthly_burn_rate),
         estimated_depletion_date |->
             Today + (current_balance * DaysPerMonth) \div monthly_burn_rate,
         current_balance |-> current_balance,
         monthly_burn_rate |-> monthly_burn_rate,
         status |-> RunwayStatus(current_balance, monthly_burn_rate)]

(***************************************************************************)
(* FinancialCalculator.calculate_growth_rate                               *)
(* A growth rate is kept in hundredths of a percent; the sum of the        *)
(* per-pair growths is an exact fraction.                                  *)
(***************************************************************************)
Abs(n) == IF n < 0 THEN -n ELSE n

RECURSIVE GCD(_, _)
GCD(a, b) == IF b = 0 THEN a ELSE GCD(b, a % b)

\* the fraction num / den, den > 0, in lowest terms
Frac(num, den) ==
    LET g == GCD(Abs(num), den)
    IN  [num |-> num \div g, den |-> den \div g]

FracAdd(x, y) == Frac(x.num * y.den + y.num * x.den, x.den * y.den)

\* monthly_totals: the total of each month that holds a transaction
MonthlyTotals(txns) ==
    [m \in MonthsOf(txns) |->
        SumAmounts(SelectSeq(txns, LAMBDA t : MonthKey(t.date) = m))]

\* sorted(monthly_totals.items()): the months in ascending order
SortedMonths(monthly_totals) ==
    [i \in 1..Cardinality(DOMAIN monthly_totals) |->
        LET m == CHOOSE m \in DOMAIN monthly_totals :
                     Cardinality({n \in DOMAIN monthly_totals : n < m}) = i - 1
        IN  [month |-> m, value |-> monthly_totals[m]]]

RECURSIVE GrowthRates(_, _)
\* growth_rates after the pairs (1,2) .. (i-1,i): how many growths were
\* appended and their sum as a fraction (a growth of 1 is 100 percent)
GrowthRates(sorted_months, i) ==
    IF i <= 1 THEN [count |-> 0, sum |-> Frac(0, 1)]
    ELSE LET before == GrowthRates(sorted_months, i - 1)
             prev_value == sorted_months[i - 1].value
             curr_value == sorted_months[i].value
         IN  IF prev_value > 0
             THEN [count |-> before.count + 1,
                   sum |-> FracAdd(before.sum,
                                   Frac(curr_value - prev_value, prev_value))]
             ELSE before

\* GrowthDivisor counting a skipped pair as a growth of 0 percent
GrowthDivisorAllPairs(growth_rates, sorted_months) == Len(sorted_months) - 1

\* len(growth_rates): the divisor of the average
GrowthDivisor(growth_rates, sorted_months) == growth_rates.count

calculate_growth_rate(transactions, metric, period_months) ==
    LET cutoff_date == Today - period_months * DaysPerMonth
        selected == SelectSeq(transactions,
                              LAMBDA t : t.date >= cutoff_date /\ t.type = metric)
        sorted_months == SortedMonths(MonthlyTotals(selected))
        growth_rates == GrowthRates(sorted_months, Len(sorted_months))
        divisor == GrowthDivisor(growth_rates, sorted_months)
        \* avg_growth_rate as a fraction of hundredths of a percent
        avg_num == IF growth_rates.count > 0 THEN growth_rates.sum.num * 10000 ELSE 0
        avg_den == IF growth_rates.count > 0 THEN growth_rates.sum.den * divisor ELSE 1
    IN  IF Len(sorted_months) < 2 THEN
            [growth_rate |-> 0, metric |-> metric, period_months |-> period_months,
             insufficient_data |-> TRUE]
        ELSE
            [growth_rate |-> RoundDiv(avg_num, avg_den),
             metric |-> metric,
             period_months |-> period_months,
             months_analyzed |-> Len(sorted_months),
             monthly_values |-> sorted_months,
             trend |-> IF avg_num > 0 THEN "increasing" ELSE "decreasing"]

(***************************************************************************)
(* FinancialCalculator.calculate_financial_health_score                    *)
(* Growth rates are in hundredths of a percent.                            *)
(***************************************************************************)
\* factor 1; runway_months = current_balance / monthly_burn_rate
RunwayScore(current_balance, monthly_burn_rate) ==
    IF monthly_burn_rate > 0 THEN
        IF current_balance >= 18 * monthly_burn_rate THEN 40
        ELSE IF current_balance >= 12 * monthly_burn_rate THEN 35
        ELSE IF current_balance >= 6 * monthly_burn_rate THEN 25
        ELSE IF current_balance >= 3 * monthly_burn_rate THEN 15
        ELSE 5
    ELSE 40

\* factor 2
RevenueScore(revenue_growth_rate) ==
    IF revenue_growth_rate >= 2000 THEN 30
    ELSE IF revenue_growth_rate >= 1000 THEN 25
    ELSE IF revenue_growth_rate >= 0 THEN 15
    ELSE 5

\* ExpenseScore from the expense growth alone
ExpenseScoreAbsolute(expense_growth_rate, revenue_growth_rate) ==
    IF expense_growth_rate < 500 THEN 25
    ELSE IF expense_growth_rate < 1500 THEN 20
    ELSE IF expense_growth_rate < 3000 THEN 10
    ELSE 5

\* factor 3
ExpenseScore(expense_growth_rate, revenue_growth_rate) ==
    IF expense_growth_rate < revenue_growth_rate THEN 30
    ELSE IF expense_growth_rate < 500 THEN 25
    ELSE IF expense_growth_rate < 1500 THEN 20
    ELSE IF expense_growth_rate < 3000 THEN 10
    ELSE 5

Rating(score) ==
    IF score >= 80 THEN "Excellent"
    ELSE IF score >= 60 THEN "Good"
    ELSE IF score >= 40 THEN "Fair"
    ELSE IF score >= 20 THEN "Poor"
    ELSE "Critical"

get_recommendations(runway_score, revenue_score, expense_score) ==
    LET recommendations ==
            (IF runway_score < 20 THEN << "URGENT: Extend runway" >>
             ELSE IF runway_score < 30 THEN << "Focus on extending runway" >>
             ELSE << >>)
            \o (IF revenue_score < 15
                THEN << "Prioritize revenue growth strategies" >> ELSE << >>)
            \o (IF expense_score < 20
                THEN << "Control expense growth" >> ELSE << >>)
    IN  IF recommendations = << >> THEN << "Maintain current trajectory" >>
        ELSE recommendations

calculate_financial_health_score(current_balance, monthly_burn_rate, revenue_growth_rate, expense_growth_rate) ==
    LET runway_score == RunwayScore(current_balance, monthly_burn_rate)
        revenue_score == RevenueScore(revenue_growth_rate)
        expense_score == ExpenseScore(expense_growth_rate, revenue_growth_rate)
        score == runway_score + revenue_score + expense_score
    IN  [health_score |-> score,
         rating |-> Rating(score),
         factors |-> [runway_score |-> runway_score,
                      revenue_growth_score |-> revenue_score,
                      expense_control_score |-> expense_score],
         recommendations |-> get_recommendations(runway_score, revenue_score,
                                                 expense_score)]

(***************************************************************************)
(* ChartGenerator.generate_category_breakdown_chart                        *)
(* Percentages are kept in hundredths of a percent.                        *)
(***************************************************************************)
\* the categories of txns in the order the dictionary first saw them
FirstSeen(txns, category) ==
    CHOOSE i \in DOMAIN txns :
        /\ txns[i].category = category
        /\ \A j \in 1..(i - 1) : txns[j].category # category

\* category_totals
CategoryTotals(txns) ==
    [c \in {txns[i].category : i \in DOMAIN txns} |->
        SumAmounts(SelectSeq(txns, LAMBDA t : t.category = c))]

\* sorted(category_totals.items(), key=amount, reverse=True): a stable sort,
\* equal amounts stay in the order of the dictionary
SortedCategories(txns) ==
    LET totals == CategoryTotals(txns)
        Before(d, c) ==
            \/ totals[d] > totals[c]
            \/ totals[d] = totals[c] /\ FirstSeen(txns, d) < FirstSeen(txns, c)
    IN  [i \in 1..Cardinality(DOMAIN totals) |->
            LET c == CHOOSE c \in DOMAIN totals :
                         Cardinality({d \in DOMAIN totals : Before(d, c)}) = i - 1
            IN  [category |-> c, amount |-> totals[c]]]

generate_category_breakdown_chart(transactions, transaction_type, top_n) ==
    LET filtered_transactions == OfType(transactions, transaction_type)
        sorted_categories == SortedCategories(filtered_transactions)
        shown == IF Len(sorted_categories) < top_n
                 THEN Len(sorted_categories) ELSE top_n
        top_categories == SubSeq(sorted_categories, 1, shown)
        total == SumAmounts(top_categories)
        other_amount ==
            SumAmounts(SubSeq(sorted_categories, shown + 1, Len(sorted_categories)))
        chart_data ==
            [i \in 1..shown |->
                [category |-> top_categories[i].category,
                 amount |-> top_categories[i].amount,
                 percentage |-> IF total > 0
                                THEN RoundDiv(top_categories[i].amount * 10000, total)
                                ELSE 0]]
    IN  IF Len(sorted_categories) > top_n /\ total + other_amount = 0 THEN
            \* other_amount / (total + other_amount) raises ZeroDivisionError
            [type |-> "category_breakdown_chart", data |-> << >>,
             error |-> "ZeroDivisionError"]
        ELSE
            [type |-> "category_breakdown_chart",
             transaction_type |-> transaction_type,
             data |-> IF Len(sorted_categories) > top_n
                      THEN Append(chart_data,
                                  [category |-> "Other",
                                   amount |-> other_amount,
                                   percentage |->
                                       RoundDiv(other_amount * 10000,
                                                total + other_amount)])
                      ELSE chart_data,
             total |-> total,
             category_count |-> Len(sorted_categories)]

(***************************************************************************)
(* FinancialCalculator.analyze_spending_by_category                        *)
(***************************************************************************)
\* the share of a category in the expenses, 0 when there are no expenses
CategoryPercentage(total, total_expenses) ==
    IF total_expenses > 0 THEN RoundDiv(total * 10000, total_expenses) ELSE 0

analyze_spending_by_category(transactions, period_months) ==
    LET cutoff_date == Today - period_months * DaysPerMonth
        recent == IF period_months # AllTime
                  THEN SelectSeq(transactions, LAMBDA t : t.date >= cutoff_date)
                  ELSE transactions
        expenses == OfType(recent, "expense")
        total_expenses == SumAmounts(expenses)
        total_income == SumAmounts(SelectSeq(recent, LAMBDA t : t.type # "expense"))
        sorted == SortedCategories(expenses)
        category_count(c) == Len(SelectSeq(expenses, LAMBDA t : t.category = c))
    IN  [categories |->
             [i \in DOMAIN sorted |->
                 [category |-> sorted[i].category,
                  total |-> sorted[i].amount,
                  count |-> category_count(sorted[i].category),
                  percentage |-> CategoryPercentage(sorted[i].amount, total_expenses),
                  avg_per_transaction |->
                      RoundDiv(sorted[i].amount, category_count(sorted[i].category))]],
         total_expenses |-> total_expenses,
         total_income |-> total_income,
         net_position |-> total_income - total_expenses,
         transaction_count |-> Len(recent),
         period_months |-> period_months]

(***************************************************************************)
(* ChartGenerator.generate_runway_forecast_chart                           *)
(***************************************************************************)
\* DisplayedBalance showing the running balance as it is
DisplayedBalanceRaw(balance) == balance

\* the balance a point shows: max(0, balance)
DisplayedBalance(balance) == Max2(0, balance)

RECURSIVE ForecastPoints(_, _, _, _)
\* the loop over range(forecast_months + 1), from month on, with the running
\* balance it has reached
ForecastPoints(balance, monthly_burn_rate, month, forecast_months) ==
    IF month > forecast_months THEN << >>
    ELSE << [month |-> MonthKey(Today) + month,
             balance |-> DisplayedBalance(balance),
             is_projected |-> month > 0,
             is_depleted |-> balance <= 0] >>
         \o ForecastPoints(balance - monthly_burn_rate, monthly_burn_rate,
                           month + 1, forecast_months)

generate_runway_forecast_chart(current_balance, monthly_burn_rate, forecast_months) ==
    LET chart_data == ForecastPoints(current_balance, monthly_burn_rate, 0,
                                     forecast_months)
        depleted == {i \in DOMAIN chart_data : chart_data[i].is_depleted}
    IN  [type |-> "runway_forecast_chart",
         data |-> chart_data,
         current_balance |-> current_balance,
         monthly_burn_rate |-> monthly_burn_rate,
         forecast_months |-> forecast_months,
         depletion_month |->
             IF depleted = {} THEN NoMonth
             ELSE (CHOOSE i \in depleted : \A j \in depleted : i <= j) - 1]

(***************************************************************************)
(* InvestmentAdvisorAgent                                                  *)
(***************************************************************************)
\* process_tool_call("assess_financial_readiness", ...)
assess_financial_readiness(current_balance, monthly_burn_rate) ==
    LET runway == calculate_runway(current_balance, monthly_burn_rate)
        runway_months == Get(runway, "runway_months", 0)
        readiness ==
            IF current_balance <= 0 THEN "not_ready"
            ELSE IF runway_months < 300 THEN "not_ready"
            ELSE IF runway_months < 600 THEN "cautious"
            ELSE "ready"
        reason ==
            IF current_balance <= 0 THEN "Negative balance - focus on profitability"
            ELSE IF runway_months < 300 THEN "Critical runway - preserve cash"
            ELSE IF runway_months < 600 THEN "Limited runway - minimal investment only"
            ELSE IF runway_months < 1200 THEN "Healthy runway - can invest conservatively"
            ELSE "Strong runway - can invest moderately"
    IN  [readiness |-> readiness,
         reason |-> reason,
         runway_months |-> runway_months,
         current_balance |-> current_balance,
         runway_status |-> Get(runway, "status", "unknown")]

\* the allocation percentages of calculate_investment_capacity
Allocation(ef, lr, mr, gr) ==
    [emergency_fund |-> ef, low_risk |-> lr, moderate_risk |-> mr, growth |-> gr]

\* process_tool_call("calculate_investment_capacity", ...); allocation_amounts
\* are current_balance * percentage / 100, kept here in hundredths of a cent
\* RecommendedAllocation with the two middle tiers in each other's place
RecommendedAllocationSwapped(current_balance, emergency_fund_required, investable_amount) ==
    IF investable_amount = 0 THEN Allocation(100, 0, 0, 0)
    ELSE IF 2 * current_balance < 3 * emergency_fund_required
        THEN Allocation(50, 40, 10, 0)
    ELSE IF current_balance < 2 * emergency_fund_required
        THEN Allocation(70, 30, 0, 0)
    ELSE Allocation(40, 30, 20, 10)

\* the tiers of the recommended allocation
RecommendedAllocation(current_balance, emergency_fund_required, investable_amount) ==
    IF investable_amount = 0 THEN Allocation(100, 0, 0, 0)
    ELSE IF 2 * current_balance < 3 * emergency_fund_required
        THEN Allocation(70, 30, 0, 0)
    ELSE IF current_balance < 2 * emergency_fund_required
        THEN Allocation(50, 40, 10, 0)
    ELSE Allocation(40, 30, 20, 10)

calculate_investment_capacity(current_balance, monthly_expenses, emergency_fund_months) ==
    LET emergency_fund_required == monthly_expenses * emergency_fund_months
        investable_amount == Max2(0, current_balance - emergency_fund_required)
        allocation == RecommendedAllocation(current_balance, emergency_fund_required,
                                            investable_amount)
    IN  [current_balance |-> current_balance,
         emergency_fund_required |-> emergency_fund_required,
         emergency_fund_months |-> emergency_fund_months,
         investable_amount |-> investable_amount,
         recommended_allocation |-> allocation,
         allocation_amounts |->
             [k \in DOMAIN allocation |-> current_balance * allocation[k]]]

\* thresholds of 100k, 1M and 10M, in cents
infer_company_stage(company_data) ==
    LET initial_capital == Get(company_data, "initial_capital", 0)
    IN  IF initial_capital < 10000000 THEN "seed"
        ELSE IF initial_capital < 100000000 THEN "early"
        ELSE IF initial_capital < 1000000000 THEN "growth"
        ELSE "mature"

\* runway_months in hundredths; monthly_burn_rate > current_balance / 12
determine_risk_tolerance(runway_months, monthly_burn_rate, current_balance) ==
    IF runway_months < 600 \/ 12 * monthly_burn_rate > current_balance
    THEN "conservative"
    ELSE "moderate"

\* web_search.search_investment_options: the curated options for the query
search_investment_options(company_stage, risk_tolerance) ==
    [query |-> <<company_stage, risk_tolerance>>,
     options |-> IF risk_tolerance = "conservative"
                 THEN {"savings", "money_market", "treasury_bills"}
                 ELSE {"savings", "money_market", "treasury_bills", "corporate_bonds"}
                      \cup (IF company_stage \in {"growth", "mature"}
                            THEN {"index_funds"} ELSE {})]

\* steps 1-5 of advise: everything computed before the LLM call
AdviseFacts(transactions, company_data) ==
    LET initial_capital == Get(company_data, "initial_capital", 0)
        company_stage == infer_company_stage(company_data)
        balance_info == calculate_balance(initial_capital, transactions)
        current_balance == balance_info.current_balance
        burn_rate_analysis == calculate_burn_rate(transactions, BurnPeriodMonths)
        monthly_burn_rate == burn_rate_analysis.burn_rate
        monthly_expenses == burn_rate_analysis.avg_monthly_expenses
        readiness == assess_financial_readiness(current_balance, monthly_burn_rate)
        investment_capacity ==
            calculate_investment_capacity(current_balance, monthly_expenses,
                                          EmergencyFundMonths)
        searched == readiness.readiness \in {"ready", "cautious"}
        investment_options ==
            IF searched
            THEN search_investment_options(
                     company_stage,
                     determine_risk_tolerance(readiness.runway_months,
                                              monthly_burn_rate, current_balance))
            ELSE EmptyDict
    IN  [searched |-> searched,
         prompt |-> IF readiness.readiness = "not_ready"
                    THEN "stabilization" ELSE "investment",
         analysis |->
            [readiness |-> readiness,
             capacity |-> investment_capacity,
             balance |-> balance_info,
             burn_rate |-> burn_rate_analysis,
             company_stage |-> company_stage,
             investment_options |-> investment_options]]

(***************************************************************************)
(* RunwayPredictorAgent and FinancialAnalystAgent: the analysis computed   *)
(* before the LLM call (the fields the orchestrator's summary reads)       *)
(***************************************************************************)
RunwayFacts(transactions, company_data) ==
    LET initial_capital == Get(company_data, "initial_capital", 0)
        burn_rate_analysis == calculate_burn_rate(transactions, BurnPeriodMonths)
        monthly_burn_rate == burn_rate_analysis.burn_rate
        balance_info == calculate_balance(initial_capital, transactions)
        current_balance == balance_info.current_balance
        runway_info == calculate_runway(current_balance, monthly_burn_rate)
    IN  [runway |-> runway_info,
         burn_rate |-> burn_rate_analysis,
         balance |-> [current_balance |-> current_balance,
                      initial_capital |-> initial_capital]]

AnalystFacts(transactions, company_data) ==
    LET initial_capital == Get(company_data, "initial_capital", 0)
    IN  [balance |-> calculate_balance(initial_capital, transactions),
         transaction_count |-> Len(transactions)]

\* the analysis of agent a for the arguments it was called with
Facts(a, transactions, company_data) ==
    IF a = "financial_analyst" THEN AnalystFacts(transactions, company_data)
    ELSE IF a = "runway_predictor" THEN RunwayFacts(transactions, company_data)
    ELSE AdviseFacts(transactions, company_data).analysis

(***************************************************************************)
(* AgentOrchestrator: aggregation                                          *)
(***************************************************************************)
\* AgentEntry reading the insights under a key the agents do not set
AgentEntryWrongKey(agent_result) ==
    [status |-> Get(agent_result, "status", "unknown"),
     insights |-> Get(agent_result, "insight", ""),
     analysis |-> Get(agent_result, "analysis", EmptyDict),
     timestamp |-> Get(agent_result, "timestamp", None)]

\* the entry _aggregate_results stores under aggregated["agents"][agent_type]
AgentEntry(agent_result) ==
    [status |-> Get(agent_result, "status", "unknown"),
     insights |-> Get(agent_result, "insights", ""),
     analysis |-> Get(agent_result, "analysis", EmptyDict),
     timestamp |-> Get(agent_result, "timestamp", None)]

\* OverallStatus without the partial case
OverallStatusNoPartial(agents_completed, agents_failed) ==
    IF agents_completed > 0 THEN "success" ELSE "failed"

\* overall_status from the two counters of _generate_summary
OverallStatus(agents_completed, agents_failed) ==
    LET total_agents == agents_completed + agents_failed
    IN  IF agents_completed = total_agents THEN "success"
        ELSE IF agents_completed > 0 THEN "partial"
        ELSE "failed"

\* results is [agents: the entries keyed by agent type, extra: the "error" and
\* "status" keys of the sequential workflow's partial result]
generate_summary(results) ==
    LET present == DOMAIN results.agents
        completed == {a \in present : Get(results.agents[a], "status", None) = "completed"}
        agents_completed == Cardinality(completed)
        agents_failed == Cardinality(present \ completed)
        counts == [agents_completed |-> agents_completed,
                   agents_failed |-> agents_failed,
                   overall_status |-> OverallStatus(agents_completed, agents_failed)]
        runway_part ==
            IF "runway_predictor" \in present
            THEN LET runway_info ==
                         Get(Get(results.agents["runway_predictor"], "analysis", EmptyDict),
                             "runway", EmptyDict)
                 IN  [runway_months |-> Get(runway_info, "runway_months", 0),
                      runway_status |-> Get(runway_info, "status", "unknown")]
            ELSE EmptyDict
        analyst_part ==
            IF "financial_analyst" \in present
            THEN LET balance_info ==
                         Get(Get(results.agents["financial_analyst"], "analysis", EmptyDict),
                             "balance", EmptyDict)
                 IN  [current_balance |-> Get(balance_info, "current_balance", 0)]
            ELSE EmptyDict
        investment_part ==
            IF "investment_advisor" \in present
            THEN LET readiness ==
                         Get(Get(results.agents["investment_advisor"], "analysis", EmptyDict),
                             "readiness", EmptyDict)
                 IN  [investment_readiness |-> Get(readiness, "readiness", "unknown")]
            ELSE EmptyDict
    IN  Merge(Merge(Merge(counts, runway_part), analyst_part), investment_part)

aggregate_results(results) ==
    [agents |-> [a \in DOMAIN results.agents |-> AgentEntry(results.agents[a])],
     extra |-> results.extra,
     summary |-> generate_summary(results)]

(***************************************************************************)
(* Inputs of a run                                                         *)
(***************************************************************************)
Txn(type, amount, date, category) ==
    [type |-> type, amount |-> amount, date |-> date, category |-> category]

\* the transactions a list is drawn from: this month's income and expenses,
\* an expense of the previous calendar month, income older than the window
TxnChoices ==
    {Txn("income", 50000, Today - 5, "sales"),
     Txn("expense", 100000, Today - 5, "payroll"),
     Txn("expense", 10000, Today - 40, "rent"),
     Txn("income", 10000, Today - 200, "sales")}

TxnLists == UNION {[1..n -> TxnChoices] : n \in 0..MaxTxns}

\* initial capital of 500, 10,000 and 100,000
CapitalChoices == {50000, 1000000, 10000000}

\* the texts the LLM may answer with
InsightTexts == {"insight_a", "insight_b"}

(***************************************************************************)
(* State                                                                   *)
(***************************************************************************)
VARIABLES
    call,               \* the orchestrator method the caller invoked
    agent_type,         \* argument of run_single_agent
    workflow_type,      \* argument of run_full_analysis
    transactions,       \* the caller's transaction list
    company_data,       \* the caller's company data
    pc,                 \* where the orchestrator's coroutine stands
    seq_pos,            \* the step of the sequential workflow
    task_state,         \* per agent: idle, created, scheduled, awaiting_llm,
                        \*            completed, failed
    task_args,          \* per agent: the arguments its coroutine was called with
    task_facts,         \* per agent: the analysis it computed before the LLM call
    task_return,        \* per agent: the dictionary returned or the exception raised
    results,            \* the results dictionary of the running workflow
    report,             \* what run_full_analysis returned
    started_order,      \* the agents in the order their coroutines began to run
    options_requested,  \* whether advise called search_investment_options
    tool_call,          \* a direct call of a tool: its name and arguments
    tool_result         \* what the called tool returned

VARIABLES
    sessions,           \* InMemorySessionService._sessions, keyed by session id
    now,                \* the clock datetime.utcnow() reads, in seconds
    session_return      \* the last call on the session service and its result

vars == <<call, agent_type, workflow_type, transactions, company_data, pc,
          seq_pos, task_state, task_args, task_facts, task_return, results,
          report, started_order, options_requested, tool_call, tool_result,
          sessions, now, session_return>>

inputs == <<call, agent_type, workflow_type, transactions, company_data>>

tool == <<tool_call, tool_result>>

service == <<sessions, now, session_return>>

Settled == {"completed", "failed"}

\* InMemorySessionService.__init__: no session is stored
ServiceInit ==
    /\ sessions = EmptyDict
    /\ now = 0
    /\ session_return = EmptyDict

Init ==
    /\ \/ /\ call = "run_full_analysis"
          /\ workflow_type \in WorkflowTypes
          /\ agent_type = None
       \/ /\ call = "run_single_agent"
          /\ agent_type \in AgentTypeArgs
          /\ workflow_type = None
    /\ transactions \in TxnLists
    /\ company_data \in {[name |-> "Acme", initial_capital |-> c] : c \in CapitalChoices}
    /\ pc = "pending"
    /\ seq_pos = 1
    /\ task_state = [a \in Agents |-> "idle"]
    /\ task_args = [a \in Agents |-> EmptyDict]
    /\ task_facts = [a \in Agents |-> EmptyDict]
    /\ task_return = [a \in Agents |-> EmptyDict]
    /\ results = [agents |-> EmptyDict, extra |-> EmptyDict]
    /\ report = EmptyDict
    /\ started_order = <<>>
    /\ options_requested = FALSE
    /\ tool_call = EmptyDict
    /\ tool_result = EmptyDict
    /\ ServiceInit

(***************************************************************************)
(* run_full_analysis: session set-up and dispatch on the workflow type     *)
(***************************************************************************)
RunFullAnalysis ==
    /\ call = "run_full_analysis"
    /\ pc = "pending"
    /\ pc' = IF workflow_type = "sequential" THEN "seq_launch"
             ELSE IF workflow_type = "parallel" THEN "par_create"
             ELSE "raised"
    /\ UNCHANGED <<inputs, tool, service, seq_pos, task_state, task_args, task_facts,
                   task_return, results, report, started_order, options_requested>>

(***************************************************************************)
(* The agents' coroutines: analyze, predict_runway, advise                 *)
(***************************************************************************)
\* the coroutine runs up to its LLM call: every metric is computed
\* the list in the order list.sort(key=date) leaves it: a stable sort
SortedByDate(txns) ==
    LET Before(j, i) ==
            \/ txns[j].date < txns[i].date
            \/ txns[j].date = txns[i].date /\ j < i
    IN  [k \in DOMAIN txns |->
            txns[CHOOSE i \in DOMAIN txns :
                     Cardinality({j \in DOMAIN txns : Before(j, i)}) = k - 1]]

\* a task whose tool sorts the list it was handed in place
TransactionsAfterTaskSorted(a, given) == SortedByDate(given)

\* the caller's list once the tools of agent a have run on it: every tool
\* reads the list, or filters it into a new list and works on that one
TransactionsAfterTask(a, given) == given

\* the caller's company data once agent a has read it (.get only)
CompanyDataAfterTask(a, given) == given

TaskCompute(a) ==
    /\ task_state[a] = "scheduled"
    /\ task_state' = [task_state EXCEPT ![a] = "awaiting_llm"]
    /\ task_facts' = [task_facts EXCEPT
                        ![a] = Facts(a, task_args[a].transactions,
                                     task_args[a].company_data)]
    /\ options_requested' =
          IF a = "investment_advisor"
          THEN AdviseFacts(task_args[a].transactions,
                           task_args[a].company_data).searched
          ELSE options_requested
    /\ started_order' = Append(started_order, a)
    /\ transactions' = TransactionsAfterTask(a, transactions)
    /\ company_data' = CompanyDataAfterTask(a, company_data)
    /\ UNCHANGED <<call, agent_type, workflow_type, tool, service, pc, seq_pos,
                   task_args, task_return, results, report>>

\* the dictionary an agent returns after a successful LLM call
TaskResult(a, facts, llm_text) ==
    [agent_type |-> a,
     analysis |-> facts,
     insights |-> llm_text,
     status |-> "completed",
     timestamp |-> "ts"]

\* execute returns the LLM's answer; the agent returns its result
SummarizeOk(a) ==
    /\ task_state[a] = "awaiting_llm"
    /\ \E text \in InsightTexts :
          task_return' = [task_return EXCEPT ![a] = TaskResult(a, task_facts[a], text)]
    /\ task_state' = [task_state EXCEPT ![a] = "completed"]
    /\ UNCHANGED <<inputs, tool, service, pc, seq_pos, task_args, task_facts, results, report,
                   started_order, options_requested>>

\* what an agent's coroutine ends with when execute raises: the except
\* clauses of execute and of the agent log and re-raise
TaskRaise(a, facts, error) == [exception |-> error]

\* execute raises; the agent re-raises
SummarizeFail(a) ==
    /\ task_state[a] = "awaiting_llm"
    /\ task_return' = [task_return EXCEPT
                          ![a] = TaskRaise(a, task_facts[a], "summarize_failed")]
    /\ task_state' = [task_state EXCEPT ![a] = "failed"]
    /\ UNCHANGED <<inputs, tool, service, pc, seq_pos, task_args, task_facts, results, report,
                   started_order, options_requested>>

(***************************************************************************)
(* _run_sequential_workflow                                                *)
(***************************************************************************)
\* EnhancedCompanyData handing on the caller's company data as it is
EnhancedCompanyDataPlain(data, runway_result, analyst_result) == data

\* the company data step 3 hands to advise: a new dictionary
EnhancedCompanyData(data, runway_result, analyst_result) ==
    Merge(data,
          [runway_analysis |-> Get(runway_result, "analysis", EmptyDict),
           financial_analysis |-> Get(analyst_result, "analysis", EmptyDict)])

\* the company data the sequential workflow passes to agent a
SeqCompanyData(a, data, res) ==
    IF a = "investment_advisor"
    THEN EnhancedCompanyData(data, res.agents["runway_predictor"],
                             res.agents["financial_analyst"])
    ELSE data

\* create the agent of the current step and await its coroutine
SeqLaunch ==
    /\ pc = "seq_launch"
    /\ LET a == SeqOrder[seq_pos]
       IN  /\ task_args' = [task_args EXCEPT
                              ![a] = [transactions |-> transactions,
                                      company_data |->
                                          SeqCompanyData(a, company_data, results)]]
           /\ task_state' = [task_state EXCEPT ![a] = "scheduled"]
    /\ pc' = "seq_await"
    /\ UNCHANGED <<inputs, tool, service, seq_pos, task_facts, task_return, results, report,
                   started_order, options_requested>>

\* the awaited agent returned: store its result, go on to the next step
SeqStepDone ==
    /\ pc = "seq_await"
    /\ LET a == SeqOrder[seq_pos]
       IN  /\ task_state[a] = "completed"
           /\ results' = [results EXCEPT
                            !.agents = Merge(@, [k \in {a} |-> task_return[a]])]
    /\ IF seq_pos = Len(SeqOrder)
       THEN pc' = "aggregate" /\ seq_pos' = seq_pos
       ELSE pc' = "seq_launch" /\ seq_pos' = seq_pos + 1
    /\ UNCHANGED <<inputs, tool, service, task_state, task_args, task_facts, task_return,
                   report, started_order, options_requested>>

\* what the except clause makes of the results gathered so far
SeqPartial(res, error) ==
    [res EXCEPT !.extra = [error |-> error, status |-> "partial"]]

\* SeqOnFailure of an except clause that re-raises
SeqOnFailureReraise == "raised"

\* SeqOnFailure of an except clause that runs the failed step again
SeqOnFailureRetry == "seq_launch"

\* where run_full_analysis stands after the except clause of
\* _run_sequential_workflow: the clause returns, the results are aggregated
SeqOnFailure == "aggregate"

\* the awaited agent raised: the except clause returns the partial results
SeqCatch ==
    /\ pc = "seq_await"
    /\ LET a == SeqOrder[seq_pos]
       IN  /\ task_state[a] = "failed"
           /\ results' = SeqPartial(results, task_return[a].exception)
    /\ pc' = SeqOnFailure
    /\ UNCHANGED <<inputs, tool, service, seq_pos, task_state, task_args, task_facts,
                   task_return, report, started_order, options_requested>>

(***************************************************************************)
(* _run_parallel_workflow                                                  *)
(***************************************************************************)
\* the three agents are created and their coroutine objects built
ParCreate ==
    /\ pc = "par_create"
    /\ task_args' = [a \in Agents |-> [transactions |-> transactions,
                                       company_data |-> company_data]]
    /\ task_state' = [a \in Agents |-> "created"]
    /\ pc' = "par_gather"
    /\ UNCHANGED <<inputs, tool, service, seq_pos, task_facts, task_return, results, report,
                   started_order, options_requested>>

\* asyncio.gather schedules the three coroutines; the orchestrator suspends
ParGather ==
    /\ pc = "par_gather"
    /\ task_state' = [a \in Agents |-> "scheduled"]
    /\ pc' = "par_await"
    /\ UNCHANGED <<inputs, tool, service, seq_pos, task_args, task_facts, task_return, results,
                   report, started_order, options_requested>>

\* GatherReady of gather without return_exceptions: the first exception
\* resumes the awaiter
GatherReadyFirstException(states) ==
    \/ \A a \in Agents : states[a] \in {"completed", "failed"}
    \/ \E a \in Agents : states[a] = "failed"

\* gather(..., return_exceptions=True) resumes its awaiter once every task
\* has returned or raised
GatherReady(states) == \A a \in Agents : states[a] \in Settled

\* the entry the parallel workflow stores for one gathered outcome
ParEntry(state, outcome) ==
    IF state = "failed"
    THEN [error |-> outcome.exception, status |-> "failed"]
    ELSE outcome

\* the orchestrator resumes and sorts the three outcomes into results
ParCollect ==
    /\ pc = "par_await"
    /\ GatherReady(task_state)
    /\ results' = [results EXCEPT
                     !.agents = [a \in Agents |-> ParEntry(task_state[a], task_return[a])]]
    /\ pc' = "aggregate"
    /\ UNCHANGED <<inputs, tool, service, seq_pos, task_state, task_args, task_facts,
                   task_return, report, started_order, options_requested>>

(***************************************************************************)
(* run_full_analysis: aggregation and return                               *)
(***************************************************************************)
Aggregate ==
    /\ pc = "aggregate"
    /\ report' = aggregate_results(results)
    /\ pc' = "done"
    /\ UNCHANGED <<inputs, tool, service, seq_pos, task_state, task_args, task_facts,
                   task_return, results, started_order, options_requested>>

(***************************************************************************)
(* run_single_agent                                                        *)
(***************************************************************************)
\* SingleAgentOf running the analyst for an agent type it does not know
SingleAgentOfDefaulting(type) ==
    IF type = "runway" THEN "runway_predictor"
    ELSE IF type = "investment" THEN "investment_advisor"
    ELSE "financial_analyst"

\* the agent run_single_agent creates for an agent type; None where it
\* raises ValueError
SingleAgentOf(type) ==
    IF type = "analyst" THEN "financial_analyst"
    ELSE IF type = "runway" THEN "runway_predictor"
    ELSE IF type = "investment" THEN "investment_advisor"
    ELSE None

\* dispatch on the agent type: create the agent and await its coroutine, or
\* raise ValueError, which the except clause logs and re-raises
RunSingleAgent ==
    /\ call = "run_single_agent"
    /\ pc = "pending"
    /\ LET a == SingleAgentOf(agent_type)
       IN  IF a = None
           THEN /\ pc' = "raised"
                /\ UNCHANGED <<task_args, task_state>>
           ELSE /\ pc' = "single_await"
                /\ task_args' = [task_args EXCEPT
                                   ![a] = [transactions |-> transactions,
                                           company_data |-> company_data]]
                /\ task_state' = [task_state EXCEPT ![a] = "scheduled"]
    /\ UNCHANGED <<inputs, tool, service, seq_pos, task_facts, task_return, results,
                   report, started_order, options_requested>>

\* the awaited agent returned: run_single_agent returns its result
SingleReturn ==
    /\ pc = "single_await"
    /\ LET a == SingleAgentOf(agent_type)
       IN  /\ task_state[a] = "completed"
           /\ report' = task_return[a]
    /\ pc' = "single_done"
    /\ UNCHANGED <<inputs, tool, service, seq_pos, task_state, task_args, task_facts,
                   task_return, results, started_order, options_requested>>

\* the awaited agent raised: the except clause logs and re-raises
SingleRaise ==
    /\ pc = "single_await"
    /\ task_state[SingleAgentOf(agent_type)] = "failed"
    /\ pc' = "raised"
    /\ UNCHANGED <<inputs, tool, service, seq_pos, task_state, task_args, task_facts,
                   task_return, results, report, started_order,
                   options_requested>>

Next ==
    \/ RunFullAnalysis
    \/ RunSingleAgent
    \/ SingleReturn
    \/ SingleRaise
    \/ \E a \in Agents : TaskCompute(a)
    \/ \E a \in Agents : SummarizeOk(a)
    \/ \E a \in Agents : SummarizeFail(a)
    \/ SeqLaunch
    \/ SeqStepDone
    \/ SeqCatch
    \/ ParCreate
    \/ ParGather
    \/ ParCollect
    \/ Aggregate

Spec == Init /\ [][Next]_vars

(***************************************************************************)
(* Runs under fair scheduling: the event loop resumes a coroutine that is  *)
(* ready to run, and every awaited LLM call returns or raises in the end.  *)
(* One transaction list and one company stand for the caller's data, which *)
(* no step of the orchestrator branches on.                                *)
(***************************************************************************)
FairInit ==
    /\ Init
    /\ transactions = << Txn("expense", 100000, Today - 5, "payroll") >>
    /\ company_data = [name |-> "Acme", initial_capital |-> 1000000]

FairSpec == FairInit /\ [][Next]_vars /\ WF_vars(Next)

(***************************************************************************)
(* The tools called on their own: the calculator, the chart generator and  *)
(* the metric steps of predict_runway and advise, each applied once to     *)
(* arguments drawn from the sets below.                                    *)
(***************************************************************************)
\* transactions of a few dollars to a few hundred dollars, in three calendar
\* months of the last 90 days and one month before them
ToolTxnChoices ==
    {Txn("income", 30000, Today - 5, "sales"),
     Txn("income", 30000, Today - 40, "sales"),
     Txn("income", 5000, Today - 200, "grants"),
     Txn("expense", 10000, Today - 5, "payroll"),
     Txn("expense", 10000, Today - 40, "payroll"),
     Txn("expense", 6000, Today - 40, "rent"),
     Txn("expense", 3000, Today - 70, "marketing"),
     Txn("expense", 2000, Today - 5, "travel")}

ToolTxnLists == UNION {[1..n -> ToolTxnChoices] : n \in 0..MaxToolTxns}

\* the sample_transactions fixture of tests/test_tools.py: three months of
\* 50000 income and 30000 + 10000 + 5000 expenses, 30 days apart
RECURSIVE SampleTransactions(_)
SampleTransactions(months) ==
    IF months = 0 THEN << >>
    ELSE LET month_date == Today - DaysPerMonth * (months - 1)
         IN  SampleTransactions(months - 1) \o
             << Txn("income", 5000000, month_date, "Revenue"),
                Txn("expense", 3000000, month_date, "Salaries"),
                Txn("expense", 1000000, month_date, "Marketing"),
                Txn("expense", 500000, month_date, "Infrastructure") >>

\* the transactions calculate_growth_rate is called with: the ones above and
\* two months whose only income has amount 0
GrowthTxnChoices ==
    ToolTxnChoices \cup {Txn("income", 0, Today - 70, "sales"),
                         Txn("income", 0, Today - 100, "sales")}

GrowthTxnLists == UNION {[1..n -> GrowthTxnChoices] : n \in 0..MaxToolTxns}

ToolCapitalChoices == {0, 50000, 80000, 100000, 130000, 140000}

\* balances around the thresholds of 3, 6 and 12 months of a 10000.00 burn
BalanceChoices ==
    {-8000000, -500000, -1, 0, 1, 2999999, 3000000, 3000001, 5999999, 6000000,
     11999999, 12000000, 20000000}

\* burn rates: a profit, zero, one cent, and 10000.00
BurnChoices == {-500000, 0, 1, 1000000}

\* balances at the 3, 6, 12 and 18 month thresholds of a 10000.00 burn
HealthBalanceChoices ==
    {-500000, 0, 2999999, 3000000, 6000000, 12000000, 17999999, 18000000}

\* growth rates at the thresholds of the revenue and expense tables
GrowthRateChoices ==
    {-100, 0, 499, 500, 999, 1000, 1499, 1500, 1999, 2000, 2999, 3000, 100000}

\* the arguments of the runway forecast: the test's 100000.00 at a burn of
\* 10000.00 over 12 months among them
ForecastBalanceChoices == {-500000, 0, 1, 3000000, 3500000, 10000000}

ForecastMonthsChoices == {0, 3, 12}

\* the transactions of a spending analysis: an expense of amount 0 among them
SpendingTxnChoices ==
    ToolTxnChoices \cup {Txn("expense", 0, Today - 5, "fees")}

SpendingTxnLists == UNION {[1..n -> SpendingTxnChoices] : n \in 0..MaxToolTxns}

ToolInit ==
    /\ call = "tool"
    /\ agent_type = None
    /\ workflow_type = None
    /\ transactions = << >>
    /\ company_data = [name |-> "Acme", initial_capital |-> 0]
    /\ pc = "pending"
    /\ seq_pos = 1
    /\ task_state = [a \in Agents |-> "idle"]
    /\ task_args = [a \in Agents |-> EmptyDict]
    /\ task_facts = [a \in Agents |-> EmptyDict]
    /\ task_return = [a \in Agents |-> EmptyDict]
    /\ results = [agents |-> EmptyDict, extra |-> EmptyDict]
    /\ report = EmptyDict
    /\ started_order = << >>
    /\ options_requested = FALSE
    /\ tool_result = EmptyDict
    /\ ServiceInit
    /\ \/ \E b \in BalanceChoices, r \in BurnChoices :
              tool_call = [name |-> "calculate_runway",
                           current_balance |-> b, monthly_burn_rate |-> r]
       \/ \E t \in ToolTxnLists \cup {SampleTransactions(3)},
                c \in {0, 10000000} :
              tool_call = [name |-> "calculate_balance",
                           initial_capital |-> c, transactions |-> t]
       \/ \E t \in ToolTxnLists \cup {SampleTransactions(3)}, m \in {1, 3} :
              tool_call = [name |-> "calculate_burn_rate",
                           transactions |-> t, period_months |-> m]
       \/ \E t \in ToolTxnLists \cup {SampleTransactions(3)},
                c \in {0, 10000000} :
              tool_call = [name |-> "predict_runway", transactions |-> t,
                           company_data |-> [name |-> "Acme", initial_capital |-> c]]
       \/ \E t \in ToolTxnLists, c \in ToolCapitalChoices :
              tool_call = [name |-> "advise", transactions |-> t,
                           company_data |-> [name |-> "Acme", initial_capital |-> c]]
       \/ \E t \in GrowthTxnLists, y \in {"income", "expense"}, m \in {6, 7} :
              tool_call = [name |-> "calculate_growth_rate", transactions |-> t,
                           metric |-> y, period_months |-> m]
       \/ \E b \in HealthBalanceChoices, r \in {-500000, 0, 1000000},
                g \in GrowthRateChoices, e \in GrowthRateChoices :
              tool_call = [name |-> "calculate_financial_health_score",
                           current_balance |-> b, monthly_burn_rate |-> r,
                           revenue_growth_rate |-> g, expense_growth_rate |-> e]
       \/ \E b \in ForecastBalanceChoices, r \in {-500000, 0, 1000000},
                n \in ForecastMonthsChoices :
              tool_call = [name |-> "generate_runway_forecast_chart",
                           current_balance |-> b, monthly_burn_rate |-> r,
                           forecast_months |-> n]
       \/ \E t \in SpendingTxnLists, m \in {AllTime, 1} :
              tool_call = [name |-> "analyze_spending_by_category",
                           transactions |-> t, period_months |-> m]
       \/ \E b \in BalanceChoices, r \in BurnChoices :
              tool_call = [name |-> "assess_financial_readiness",
                           current_balance |-> b, monthly_burn_rate |-> r]
       \/ \E t \in ToolTxnLists, y \in {"income", "expense"}, n \in {1, 2} :
              tool_call = [name |-> "generate_category_breakdown_chart",
                           transactions |-> t, transaction_type |-> y,
                           top_n |-> n]

\* neither the orchestrator nor the session service takes part in a tool call
NoRun ==
    UNCHANGED <<inputs, service, pc, seq_pos, task_state, task_args, task_facts,
                task_return, results, report, started_order, options_requested>>

\* the tool named name has been called and has not returned
Calling(name) == tool_call.name = name /\ tool_result = EmptyDict

CallCalculateRunway ==
    /\ Calling("calculate_runway")
    /\ tool_result' = calculate_runway(tool_call.current_balance,
                                       tool_call.monthly_burn_rate)
    /\ UNCHANGED tool_call /\ NoRun

CallCalculateBalance ==
    /\ Calling("calculate_balance")
    /\ tool_result' = calculate_balance(tool_call.initial_capital,
                                        tool_call.transactions)
    /\ UNCHANGED tool_call /\ NoRun

CallCalculateBurnRate ==
    /\ Calling("calculate_burn_rate")
    /\ tool_result' = calculate_burn_rate(tool_call.transactions,
                                          tool_call.period_months)
    /\ UNCHANGED tool_call /\ NoRun

\* steps 2-4 of predict_runway: burn rate, balance, and the runway from them
CallPredictRunway ==
    /\ Calling("predict_runway")
    /\ tool_result' = RunwayFacts(tool_call.transactions, tool_call.company_data)
    /\ UNCHANGED tool_call /\ NoRun

\* steps 1-5 of advise: balance, burn rate, readiness, capacity, options
CallAdvise ==
    /\ Calling("advise")
    /\ tool_result' = AdviseFacts(tool_call.transactions,
                                  tool_call.company_data).analysis
    /\ UNCHANGED tool_call /\ NoRun

CallCategoryBreakdownChart ==
    /\ Calling("generate_category_breakdown_chart")
    /\ tool_result' = generate_category_breakdown_chart(
                          tool_call.transactions, tool_call.transaction_type,
                          tool_call.top_n)
    /\ UNCHANGED tool_call /\ NoRun

CallCalculateGrowthRate ==
    /\ Calling("calculate_growth_rate")
    /\ tool_result' = calculate_growth_rate(tool_call.transactions,
                                           tool_call.metric,
                                           tool_call.period_months)
    /\ UNCHANGED tool_call /\ NoRun

CallCalculateFinancialHealthScore ==
    /\ Calling("calculate_financial_health_score")
    /\ tool_result' = calculate_financial_health_score(
                          tool_call.current_balance, tool_call.monthly_burn_rate,
                          tool_call.revenue_growth_rate,
                          tool_call.expense_growth_rate)
    /\ UNCHANGED tool_call /\ NoRun

CallRunwayForecastChart ==
    /\ Calling("generate_runway_forecast_chart")
    /\ tool_result' = generate_runway_forecast_chart(
                          tool_call.current_balance, tool_call.monthly_burn_rate,
                          tool_call.forecast_months)
    /\ UNCHANGED tool_call /\ NoRun

CallAnalyzeSpendingByCategory ==
    /\ Calling("analyze_spending_by_category")
    /\ tool_result' = analyze_spending_by_category(tool_call.transactions,
                                                   tool_call.period_months)
    /\ UNCHANGED tool_call /\ NoRun

CallAssessFinancialReadiness ==
    /\ Calling("assess_financial_readiness")
    /\ tool_result' = assess_financial_readiness(tool_call.current_balance,
                                                 tool_call.monthly_burn_rate)
    /\ UNCHANGED tool_call /\ NoRun

ToolNext ==
    \/ CallCalculateRunway
    \/ CallCalculateBalance
    \/ CallCalculateBurnRate
    \/ CallPredictRunway
    \/ CallAdvise
    \/ CallCategoryBreakdownChart
    \/ CallCalculateGrowthRate
    \/ CallCalculateFinancialHealthScore
    \/ CallRunwayForecastChart
    \/ CallAnalyzeSpendingByCategory
    \/ CallAssessFinancialReadiness

ToolSpec == ToolInit /\ [][ToolNext]_vars

(***************************************************************************)
(* InMemorySessionService                                                  *)
(***************************************************************************)
SessionIds == {"s1", "s2"}

\* initial_context of create_session
ContextChoices == {[company |-> "Acme"]}

\* context_updates of update_context
ContextUpdates == {[step |-> 1]}

\* _is_expired, with t the clock it reads
is_expired(session, t) == t > session.last_accessed + SessionTimeout

\* del self._sessions[session_id]
Without(stored, session_id) ==
    [i \in (DOMAIN stored) \ {session_id} |-> stored[i]]

\* self._sessions[session_id] = session
With(stored, session_id, session) ==
    [i \in (DOMAIN stored) \cup {session_id} |->
        IF i = session_id THEN session ELSE stored[i]]

\* get_session at clock t: the sessions it leaves and whether it returned a
\* session (found) or None
get_session(stored, session_id, t) ==
    IF session_id \notin DOMAIN stored THEN [sessions |-> stored, found |-> FALSE]
    ELSE LET touched == [stored EXCEPT ![session_id].last_accessed = t]
         IN  IF is_expired(touched[session_id], t)
             THEN [sessions |-> Without(touched, session_id), found |-> FALSE]
             ELSE [sessions |-> touched, found |-> TRUE]

\* what a call on the session service returned
Returns(op, session_id, found, value) ==
    [op |-> op, session_id |-> session_id, found |-> found, value |-> value]

SessionInit ==
    /\ call = "session"
    /\ agent_type = None
    /\ workflow_type = None
    /\ transactions = << >>
    /\ company_data = [name |-> "Acme", initial_capital |-> 0]
    /\ pc = "pending"
    /\ seq_pos = 1
    /\ task_state = [a \in Agents |-> "idle"]
    /\ task_args = [a \in Agents |-> EmptyDict]
    /\ task_facts = [a \in Agents |-> EmptyDict]
    /\ task_return = [a \in Agents |-> EmptyDict]
    /\ results = [agents |-> EmptyDict, extra |-> EmptyDict]
    /\ report = EmptyDict
    /\ started_order = << >>
    /\ options_requested = FALSE
    /\ tool_call = EmptyDict
    /\ tool_result = EmptyDict
    /\ ServiceInit

\* the orchestrator and the tools take no part in a call on the service
NoAnalysis ==
    UNCHANGED <<inputs, tool, pc, seq_pos, task_state, task_args, task_facts,
                task_return, results, report, started_order, options_requested>>

CreateSession(session_id, initial_context) ==
    /\ sessions' = With(sessions, session_id,
                        [last_accessed |-> now, messages |-> << >>,
                         context |-> initial_context])
    /\ session_return' = Returns("create_session", session_id, TRUE,
                                 initial_context)
    /\ UNCHANGED now /\ NoAnalysis

GetSession(session_id) ==
    LET got == get_session(sessions, session_id, now)
    IN  /\ sessions' = got.sessions
        /\ session_return' = Returns("get_session", session_id, got.found, EmptyDict)
        /\ UNCHANGED now /\ NoAnalysis

AddMessage(session_id, content) ==
    LET got == get_session(sessions, session_id, now)
    IN  /\ got.found => Len(got.sessions[session_id].messages) < MaxMessages
        /\ sessions' =
              IF got.found
              THEN [got.sessions EXCEPT
                      ![session_id].messages =
                          Append(@, [role |-> "user", content |-> content])]
              ELSE got.sessions
        /\ session_return' = Returns("add_message", session_id, got.found, EmptyDict)
        /\ UNCHANGED now /\ NoAnalysis

GetMessages(session_id) ==
    LET got == get_session(sessions, session_id, now)
    IN  /\ sessions' = got.sessions
        /\ session_return' =
              Returns("get_messages", session_id, got.found,
                      IF got.found THEN got.sessions[session_id].messages ELSE << >>)
        /\ UNCHANGED now /\ NoAnalysis

UpdateContext(session_id, context_updates) ==
    LET got == get_session(sessions, session_id, now)
    IN  /\ sessions' =
              IF got.found
              THEN [got.sessions EXCEPT
                      ![session_id].context = Merge(@, context_updates)]
              ELSE got.sessions
        /\ session_return' = Returns("update_context", session_id, got.found,
                                     EmptyDict)
        /\ UNCHANGED now /\ NoAnalysis

GetContext(session_id) ==
    LET got == get_session(sessions, session_id, now)
    IN  /\ sessions' = got.sessions
        /\ session_return' =
              Returns("get_context", session_id, got.found,
                      IF got.found THEN got.sessions[session_id].context
                      ELSE EmptyDict)
        /\ UNCHANGED now /\ NoAnalysis

DeleteSession(session_id) ==
    /\ sessions' = Without(sessions, session_id)
    /\ session_return' = Returns("delete_session", session_id,
                                 session_id \in DOMAIN sessions, EmptyDict)
    /\ UNCHANGED now /\ NoAnalysis

CleanupExpiredSessions ==
    LET expired_sessions == {i \in DOMAIN sessions : is_expired(sessions[i], now)}
    IN  /\ sessions' = [i \in (DOMAIN sessions) \ expired_sessions |-> sessions[i]]
        /\ session_return' = Returns("cleanup_expired_sessions", None,
                                     expired_sessions # {},
                                     Cardinality(expired_sessions))
        /\ UNCHANGED now /\ NoAnalysis

\* half a timeout passes between two calls
Tick ==
    /\ now < MaxTicks * (SessionTimeout \div 2)
    /\ now' = now + SessionTimeout \div 2
    /\ UNCHANGED <<sessions, session_return>> /\ NoAnalysis

SessionNext ==
    \/ \E i \in SessionIds, c \in ContextChoices : CreateSession(i, c)
    \/ \E i \in SessionIds : GetSession(i)
    \/ \E i \in SessionIds : AddMessage(i, "hi")
    \/ \E i \in SessionIds : GetMessages(i)
    \/ \E i \in SessionIds, u \in ContextUpdates : UpdateContext(i, u)
    \/ \E i \in SessionIds : GetContext(i)
    \/ \E i \in SessionIds : DeleteSession(i)
    \/ CleanupExpiredSessions
    \/ Tick

SessionSpec == SessionInit /\ [][SessionNext]_vars

(***************************************************************************)
(* Properties                                                              *)
(***************************************************************************)
Returned == pc = "done"
Sequential == workflow_type = "sequential"
Parallel == workflow_type = "parallel"
FailedTasks == {a \in Agents : task_state[a] = "failed"}
CompletedTasks == {a \in Agents : task_state[a] = "completed"}
\* the coroutine of agent a has begun to run
Started(a) == task_state[a] \in {"awaiting_llm", "completed", "failed"}
\* agent a has been handed to the event loop and has not settled
InFlight(a) == task_state[a] \in {"scheduled", "awaiting_llm"}
InReport(a) == a \in DOMAIN report.agents

\* C1: sequential workflow, Runway Prediction failed: Investment Advice was
\* never started and has an entry in the returned report that marks it as not
\* run (an entry whose status is not "completed"), and Spending Analysis's
\* result is in the report.
C1_RunwayFailureReport ==
    (Returned /\ Sequential /\ task_state["runway_predictor"] = "failed") =>
        /\ task_state["investment_advisor"] = "idle"
        /\ InReport("investment_advisor")
        /\ report.agents["investment_advisor"].status # "completed"
        /\ InReport("financial_analyst")
        /\ report.agents["financial_analyst"].insights
               = task_return["financial_analyst"].insights

\* C2: parallel workflow, exactly one task failed: overall_status is partial
\* and the report holds the other two tasks' insights exactly as returned.
C2_ParallelOneFailure ==
    (Returned /\ Parallel /\ Cardinality(FailedTasks) = 1) =>
        /\ report.summary.overall_status = "partial"
        /\ \A a \in Agents \ FailedTasks :
              /\ InReport(a)
              /\ report.agents[a].insights = task_return[a].insights
              /\ report.agents[a].insights \in InsightTexts

C2_Witness ==
    /\ Returned /\ Parallel
    /\ FailedTasks = {"runway_predictor"}
    /\ task_return["financial_analyst"].insights
           # task_return["investment_advisor"].insights

\* C3: whenever a task's LLM call failed after its metrics were computed, the
\* returned report has an entry for the task that holds the computed facts as
\* its analysis and does not report the task as completed.
C3_FactsSurviveSummarizeFailure ==
    Returned =>
        \A a \in FailedTasks :
            /\ InReport(a)
            /\ report.agents[a].analysis = task_facts[a]
            /\ report.agents[a].status # "completed"

\* C4: every failed task has an entry in the returned report and is counted
\* in the summary's agents_failed.
C4_FailedTaskCounted ==
    Returned =>
        /\ \A a \in FailedTasks : InReport(a)
        /\ report.summary.agents_failed >= Cardinality(FailedTasks)

\* C5: sequential workflow, some task failed: no later task of the chain was
\* started and the report's overall_status is partial.
C5_SequentialFailureIsPartial ==
    (Returned /\ Sequential /\ FailedTasks # {}) =>
        /\ \A i \in 1..Len(SeqOrder) : \A j \in 1..Len(SeqOrder) :
              (task_state[SeqOrder[i]] = "failed" /\ i < j)
                  => task_state[SeqOrder[j]] = "idle"
        /\ report.summary.overall_status = "partial"

AdviseBalance == task_facts["investment_advisor"].balance.current_balance
AdviseBurn == task_facts["investment_advisor"].burn_rate.burn_rate
\* current_balance <= 0, or a burn rate that leaves less than 3 months
GateClosed ==
    \/ AdviseBalance <= 0
    \/ (AdviseBurn > 0 /\ AdviseBalance < 3 * AdviseBurn)

\* C7: whenever Investment Advice ran on a balance <= 0 or a runway below 3
\* months, it did not request investment options and its analysis carries no
\* recommended allocation and no allocation amounts.
C7_GateBlocksAllocation ==
    (Started("investment_advisor") /\ GateClosed) =>
        /\ ~options_requested
        /\ task_facts["investment_advisor"].investment_options = EmptyDict
        /\ "recommended_allocation"
               \notin DOMAIN task_facts["investment_advisor"].capacity
        /\ "allocation_amounts"
               \notin DOMAIN task_facts["investment_advisor"].capacity

\* s is an initial segment of t
IsPrefix(s, t) == Len(s) <= Len(t) /\ \A i \in 1..Len(s) : s[i] = t[i]

\* C8: sequential workflow: the tasks start in the order Spending Analysis,
\* Runway Prediction, Investment Advice, a task is launched only when its
\* predecessor has completed successfully, and at most one task is in flight.
C8_SequentialOrder ==
    Sequential =>
        /\ IsPrefix(started_order,
                    <<"financial_analyst", "runway_predictor", "investment_advisor">>)
        /\ task_state["runway_predictor"] # "idle"
               => task_state["financial_analyst"] = "completed"
        /\ task_state["investment_advisor"] # "idle"
               => task_state["runway_predictor"] = "completed"
        /\ Cardinality({a \in Agents : InFlight(a)}) <= 1

C8_Witness ==
    /\ Sequential
    /\ task_state["investment_advisor"] = "awaiting_llm"
    /\ Len(started_order) = 3

\* C9: sequential workflow: Investment Advice is called with company data
\* that holds, under runway_analysis, the analysis Runway Prediction returned
\* in this run, and holds the caller's company data unchanged; the caller's
\* own company data has no such key.
C9_AdviceGetsRunwayFacts ==
    (Sequential /\ task_state["investment_advisor"] # "idle") =>
        /\ "runway_analysis" \in DOMAIN task_args["investment_advisor"].company_data
        /\ task_args["investment_advisor"].company_data.runway_analysis
               = task_return["runway_predictor"].analysis
        /\ task_return["runway_predictor"].analysis = task_facts["runway_predictor"]
        /\ \A k \in DOMAIN company_data :
               task_args["investment_advisor"].company_data[k] = company_data[k]
        /\ "runway_analysis" \notin DOMAIN company_data

C9_Witness ==
    /\ Sequential
    /\ task_state["investment_advisor"] = "scheduled"
    /\ task_args["investment_advisor"].company_data.runway_analysis.runway.status
           = "critical"

\* C10: parallel workflow: no task begins to run before all three have been
\* handed to the event loop, the step in which one task fails leaves its
\* siblings' state and outcome untouched (nothing is cancelled), and
\* aggregation starts only when all three tasks have settled.
C10_FanOutFanIn ==
    /\ [](Parallel =>
            /\ (\E a \in Agents : Started(a))
                   => \A b \in Agents : task_state[b] \notin {"idle", "created"}
            /\ pc \in {"aggregate", "done"}
                   => \A a \in Agents : task_state[a] \in Settled)
    /\ [][\A a \in Agents :
              (Parallel /\ task_state[a] # "failed" /\ task_state'[a] = "failed")
                  => \A b \in Agents \ {a} :
                         /\ task_state'[b] = task_state[b]
                         /\ task_return'[b] = task_return[b]]_vars

C10_Witness ==
    /\ Parallel
    /\ pc = "par_await"
    /\ task_state["financial_analyst"] = "failed"
    /\ task_state["runway_predictor"] = "awaiting_llm"
    /\ task_state["investment_advisor"] = "scheduled"


\* the caller named a workflow type run_full_analysis does not run, or an
\* agent type run_single_agent does not know
InvalidKind ==
    \/ call = "run_full_analysis" /\ workflow_type \notin {"sequential", "parallel"}
    \/ call = "run_single_agent" /\ agent_type \notin {"analyst", "runway", "investment"}

\* C11: a run with a workflow type other than sequential or parallel, or
\* with an unknown agent type, ends by raising and nothing else: no agent is
\* ever created, handed to the event loop or run, and nothing is returned.
C11_InvalidKindStartsNoTask ==
    InvalidKind =>
        /\ pc \in {"pending", "raised"}
        /\ \A a \in Agents : task_state[a] = "idle" /\ task_args[a] = EmptyDict
        /\ started_order = << >>
        /\ report = EmptyDict

C11_Witness ==
    /\ call = "run_single_agent"
    /\ agent_type = "advisor"
    /\ pc = "raised"

\* run_full_analysis was called with a workflow type it runs
ValidFullRun ==
    call = "run_full_analysis" /\ workflow_type \in {"sequential", "parallel"}

\* the states of a run: Pending, Running, and the terminal states
RunPhase(p) ==
    IF p = "pending" THEN 0
    ELSE IF p \in {"done", "raised", "single_done"} THEN 2
    ELSE 1

\* C12: a run of the sequential or the parallel workflow in which every
\* awaited task returns or raises never raises, goes from Pending to Running
\* and from Running to a terminal state and never back, and in the end
\* returns a report whose overall_status is one of success, partial and
\* failed; the returned report never changes afterwards.
C12_RunTerminates ==
    /\ [](ValidFullRun => pc # "raised")
    /\ [][ValidFullRun =>
             /\ RunPhase(pc') >= RunPhase(pc)
             /\ RunPhase(pc') <= RunPhase(pc) + 1
             /\ pc = "done" => (pc' = "done" /\ report' = report)]_vars
    /\ ValidFullRun ~>
           (/\ pc = "done"
            /\ report.summary.overall_status \in {"success", "partial", "failed"})

C12_Witness ==
    /\ pc = "done"
    /\ workflow_type = "sequential"
    /\ task_state["runway_predictor"] = "failed"
    /\ "summary" \in DOMAIN report

\* how many times the coroutine of agent a began to run
TimesStarted(a) == Cardinality({i \in DOMAIN started_order : started_order[i] = a})

\* C13: within one run_full_analysis the coroutine of each of the three
\* agents begins to run at most once, and an agent that has returned or
\* raised is never created, scheduled or run again.
C13_InvokedAtMostOnce ==
    /\ [](call = "run_full_analysis" => \A a \in Agents : TimesStarted(a) <= 1)
    /\ [][call = "run_full_analysis" =>
             \A a \in Agents :
                 task_state[a] \in Settled =>
                     /\ task_state'[a] = task_state[a]
                     /\ task_return'[a] = task_return[a]]_vars

C13_Witness ==
    /\ pc = "done"
    /\ workflow_type = "sequential"
    /\ task_state["financial_analyst"] = "completed"
    /\ task_state["runway_predictor"] = "failed"
    /\ started_order = <<"financial_analyst", "runway_predictor">>

\* the tool named name was called and has returned
Applied(name) == tool_call.name = name /\ tool_result # EmptyDict

\* C14: for every balance, positive, zero or negative, and every burn rate
\* <= 0, calculate_runway returns status positive_cash_flow, an infinite
\* runway_months and no depletion date.
C14_NoBurnIsInfiniteRunway ==
    (Applied("calculate_runway") /\ tool_call.monthly_burn_rate <= 0) =>
        /\ tool_result.status = "positive_cash_flow"
        /\ tool_result.runway_months = Infinity
        /\ tool_result.estimated_depletion_date = NoDate
        /\ "error" \notin DOMAIN tool_result

C14_Witness ==
    /\ Applied("calculate_runway")
    /\ tool_call.monthly_burn_rate = 0
    /\ tool_call.current_balance < 0
    /\ tool_result.status = "positive_cash_flow"

\* C15: for every balance and every burn rate > 0, calculate_runway returns
\* status critical when balance / burn < 3, warning when it is at least 3 and
\* below 6, healthy when at least 6 and below 12, excellent from 12 on;
\* calculate_runway(30000, 10000) gives runway_months 3.0 and warning; a
\* negative balance gives a runway_months <= 0 with status critical and no
\* error.
C15_RunwayStatusThresholds ==
    (Applied("calculate_runway") /\ tool_call.monthly_burn_rate > 0) =>
        LET b == tool_call.current_balance
            r == tool_call.monthly_burn_rate
            status == Get(tool_result, "status", "none")
        IN  /\ b < 3 * r => status = "critical"
            /\ (3 * r <= b /\ b < 6 * r) => status = "warning"
            /\ (6 * r <= b /\ b < 12 * r) => status = "healthy"
            /\ 12 * r <= b => status = "excellent"
            /\ (b = 3000000 /\ r = 1000000) =>
                   tool_result.runway_months = 300 /\ status = "warning"
            /\ b < 0 => /\ tool_result.runway_months <= 0
                        /\ status = "critical"
                        /\ "error" \notin DOMAIN tool_result

RECURSIVE TotalOfType(_, _, _)
\* the sum of the amounts of the transactions of one type among the first n
TotalOfType(txns, type, n) ==
    IF n = 0 THEN 0
    ELSE TotalOfType(txns, type, n - 1)
         + (IF txns[n].type = type THEN txns[n].amount ELSE 0)

\* C16: for every transaction list, whatever its dates, and every initial
\* capital, calculate_balance returns current_balance = initial_capital +
\* the sum of all income amounts - the sum of all expense amounts.
C16_BalanceIsExactSum ==
    Applied("calculate_balance") =>
        LET txns == tool_call.transactions
        IN  tool_result.current_balance
                = tool_call.initial_capital
                  + TotalOfType(txns, "income", Len(txns))
                  - TotalOfType(txns, "expense", Len(txns))

C16_Witness ==
    /\ Applied("calculate_balance")
    /\ Len(tool_call.transactions) = 3
    /\ \E i \in DOMAIN tool_call.transactions :
           /\ tool_call.transactions[i].type = "income"
           /\ tool_call.transactions[i].date < Today - 3 * DaysPerMonth
    /\ \E i \in DOMAIN tool_call.transactions :
           tool_call.transactions[i].type = "expense"
    /\ tool_call.initial_capital = 10000000
    /\ tool_result.current_balance # 10000000

\* the transactions of the analysis window of period_months months
InPeriod(txns, period_months) ==
    SelectSeq(txns, LAMBDA t : t.date >= Today - period_months * DaysPerMonth)

\* C17: calculate_burn_rate returns the in-period income sum and the
\* in-period expense sum each divided by max(number of distinct calendar
\* months that hold an in-period transaction, 1), also when income and
\* expenses fall in different months.
C17_DividesByDistinctMonths ==
    (Applied("calculate_burn_rate") /\ tool_call.transactions # << >>) =>
        LET recent == InPeriod(tool_call.transactions, tool_call.period_months)
            months == Max2(Cardinality(MonthsOf(recent)), 1)
        IN  /\ tool_result.avg_monthly_income
                   = RoundDiv(TotalOfType(recent, "income", Len(recent)), months)
            /\ tool_result.avg_monthly_expenses
                   = RoundDiv(TotalOfType(recent, "expense", Len(recent)), months)

\* the total of the transactions of one type that fall in calendar month m
MonthTotal(txns, type, m) ==
    LET in_month == SelectSeq(txns, LAMBDA t : MonthKey(t.date) = m)
    IN  TotalOfType(in_month, type, Len(in_month))

\* every month that holds a transaction of txns has the same total income
\* and the same total expenses
UniformMonths(txns) ==
    \A m \in MonthsOf(txns) : \A n \in MonthsOf(txns) :
        /\ MonthTotal(txns, "income", m) = MonthTotal(txns, "income", n)
        /\ MonthTotal(txns, "expense", m) = MonthTotal(txns, "expense", n)

\* C18: when every month with data in the 90-day window has the same total
\* income I and the same total expenses E, the burn rate analysis has
\* avg_monthly_income = I, avg_monthly_expenses = E and burn_rate = E - I,
\* and for E <= I the runway computed from it is infinite; for three months
\* of 50000 income and 45000 expenses with initial capital 100000 these are
\* 50000, 45000 and -5000, the balance is 115000 and the runway is infinite.
C18_UniformMonthsAverages ==
    Applied("predict_runway") =>
        LET recent == InPeriod(tool_call.transactions, BurnPeriodMonths)
            m == CHOOSE m \in MonthsOf(recent) : TRUE
            I == MonthTotal(recent, "income", m)
            E == MonthTotal(recent, "expense", m)
        IN  /\ (MonthsOf(recent) # {} /\ UniformMonths(recent)) =>
                   /\ tool_result.burn_rate.avg_monthly_income = I
                   /\ tool_result.burn_rate.avg_monthly_expenses = E
                   /\ tool_result.burn_rate.burn_rate = E - I
                   /\ E <= I =>
                          /\ tool_result.runway.runway_months = Infinity
                          /\ tool_result.runway.status = "positive_cash_flow"
            /\ (/\ tool_call.transactions = SampleTransactions(3)
                /\ tool_call.company_data.initial_capital = 10000000) =>
                   /\ UniformMonths(recent)
                   /\ Cardinality(MonthsOf(recent)) = 3
                   /\ tool_result.burn_rate.avg_monthly_income = 5000000
                   /\ tool_result.burn_rate.avg_monthly_expenses = 4500000
                   /\ tool_result.burn_rate.burn_rate = -500000
                   /\ tool_result.balance.current_balance = 11500000
                   /\ tool_result.runway.runway_months = Infinity

C18_Witness ==
    /\ Applied("predict_runway")
    /\ tool_call.transactions = SampleTransactions(3)
    /\ tool_call.company_data.initial_capital = 10000000
    /\ tool_result.burn_rate.months_analyzed = 3
    /\ tool_result.balance.current_balance = 11500000

RECURSIVE SumPercentages(_)
\* the sum of the percentages of the entries of a chart
SumPercentages(data) ==
    IF data = << >> THEN 0
    ELSE Head(data).percentage + SumPercentages(Tail(data))

\* C19: for every transaction set with more than top_n categories of the
\* charted type, the percentages of the entries generate_category_breakdown_chart
\* returns, "Other" included, sum to 100 up to the rounding of the entries
\* (0.01 for each entry).
C19_PercentagesSumTo100 ==
    (/\ Applied("generate_category_breakdown_chart")
     /\ Cardinality({t.category : t \in
            {tool_call.transactions[i] : i \in
                {j \in DOMAIN tool_call.transactions :
                    tool_call.transactions[j].type = tool_call.transaction_type}}})
            > tool_call.top_n) =>
        LET sum == SumPercentages(tool_result.data)
        IN  /\ sum >= 10000 - Len(tool_result.data)
            /\ sum <= 10000 + Len(tool_result.data)

\* advise found the company ready or cautious: it goes on to investment options
GatePasses == tool_result.readiness.readiness \in {"ready", "cautious"}

\* the emergency fund advise requires: six months of average expenses
RequiredFund == tool_result.burn_rate.avg_monthly_expenses * EmergencyFundMonths

\* C20 as stated: when the gate passes the split is 70/30/0/0 for a balance
\* below 1.5 x the required emergency fund, 50/40/10/0 from 1.5 x up to
\* below 2 x, and 40/30/20/10 otherwise; no other split is returned.
C20_AllocationTiers ==
    (Applied("advise") /\ GatePasses) =>
        LET balance == tool_result.balance.current_balance
        IN  tool_result.capacity.recommended_allocation =
                IF 2 * balance < 3 * RequiredFund THEN Allocation(70, 30, 0, 0)
                ELSE IF balance < 2 * RequiredFund THEN Allocation(50, 40, 10, 0)
                ELSE Allocation(40, 30, 20, 10)

\* C20, amended: when the gate passes the split is 100/0/0/0 for a balance
\* that does not exceed the required emergency fund, 70/30/0/0 for a balance
\* above it and below 1.5 x, 50/40/10/0 from 1.5 x up to below 2 x, and
\* 40/30/20/10 otherwise; no other split is returned.
C20_AllocationTiersWithReserve ==
    (Applied("advise") /\ GatePasses) =>
        LET balance == tool_result.balance.current_balance
        IN  tool_result.capacity.recommended_allocation =
                IF balance <= RequiredFund THEN Allocation(100, 0, 0, 0)
                ELSE IF 2 * balance < 3 * RequiredFund THEN Allocation(70, 30, 0, 0)
                ELSE IF balance < 2 * RequiredFund THEN Allocation(50, 40, 10, 0)
                ELSE Allocation(40, 30, 20, 10)

C20_Witness ==
    /\ Applied("advise")
    /\ GatePasses
    /\ tool_result.capacity.recommended_allocation = Allocation(100, 0, 0, 0)
    /\ tool_result.balance.current_balance > 0

\* the consecutive pairs of the months of a set, in ascending order
ConsecutivePairs(months) ==
    {p \in months \X months :
        p[1] < p[2] /\ ~ \E c \in months : p[1] < c /\ c < p[2]}

RECURSIVE GrowthSum(_, _, _)
\* the sum over a set of month pairs of (later - earlier) / earlier
GrowthSum(pairs, txns, type) ==
    IF pairs = {} THEN Frac(0, 1)
    ELSE LET p == CHOOSE p \in pairs : TRUE
             earlier == MonthTotal(txns, type, p[1])
             later == MonthTotal(txns, type, p[2])
         IN  FracAdd(Frac(later - earlier, earlier),
                     GrowthSum(pairs \ {p}, txns, type))

\* C21: with fewer than 2 months of data of the metric in the window,
\* calculate_growth_rate returns growth_rate 0 flagged insufficient_data;
\* otherwise its growth_rate is the average of the month-over-month
\* percentage growth over exactly the consecutive month pairs whose earlier
\* month has a value > 0, the other pairs counting neither in the sum nor in
\* the divisor.
C21_GrowthAveragesCountedPairs ==
    Applied("calculate_growth_rate") =>
        LET recent == InPeriod(tool_call.transactions, tool_call.period_months)
            data == SelectSeq(recent, LAMBDA t : t.type = tool_call.metric)
            months == MonthsOf(data)
            counted == {p \in ConsecutivePairs(months) :
                           MonthTotal(data, tool_call.metric, p[1]) > 0}
            sum == GrowthSum(counted, data, tool_call.metric)
        IN  IF Cardinality(months) < 2
            THEN /\ tool_result.growth_rate = 0
                 /\ "insufficient_data" \in DOMAIN tool_result
                 /\ tool_result.insufficient_data
            ELSE /\ "insufficient_data" \notin DOMAIN tool_result
                 /\ counted # {} =>
                        tool_result.growth_rate
                            = RoundDiv(sum.num * 10000,
                                       sum.den * Cardinality(counted))

C21_Witness ==
    /\ Applied("calculate_growth_rate")
    /\ tool_call.metric = "income"
    /\ "months_analyzed" \in DOMAIN tool_result
    /\ tool_result.months_analyzed = 3
    /\ \E i \in 1..2 : tool_result.monthly_values[i].value = 0
    /\ tool_result.growth_rate = -10000

\* C22: calculate_financial_health_score returns a score that is the sum of a
\* runway_score <= 40, a revenue_growth_score <= 30 and an
\* expense_control_score <= 30, lies in 0..100, and is rated Excellent from
\* 80, Good from 60, Fair from 40, Poor from 20 and Critical below 20;
\* expense_control_score is 30 whenever expense growth is below revenue
\* growth, whatever their magnitudes.
C22_HealthScore ==
    Applied("calculate_financial_health_score") =>
        LET f == tool_result.factors
            score == tool_result.health_score
            rating == tool_result.rating
        IN  /\ score = f.runway_score + f.revenue_growth_score
                       + f.expense_control_score
            /\ f.runway_score \in 0..40
            /\ f.revenue_growth_score \in 0..30
            /\ f.expense_control_score \in 0..30
            /\ score \in 0..100
            /\ rating = "Excellent" <=> score >= 80
            /\ rating = "Good" <=> (60 <= score /\ score < 80)
            /\ rating = "Fair" <=> (40 <= score /\ score < 60)
            /\ rating = "Poor" <=> (20 <= score /\ score < 40)
            /\ rating = "Critical" <=> score < 20
            /\ tool_call.expense_growth_rate < tool_call.revenue_growth_rate
                   => f.expense_control_score = 30

C22_Witness ==
    /\ Applied("calculate_financial_health_score")
    /\ tool_call.expense_growth_rate = 3000
    /\ tool_call.revenue_growth_rate = 100000
    /\ tool_result.factors.expense_control_score = 30
    /\ tool_result.health_score = 100

\* the running balance of the forecast at month index i
RunningBalance(i) == tool_call.current_balance - i * tool_call.monthly_burn_rate

\* C23: generate_runway_forecast_chart returns forecast_months + 1 points;
\* the point of month index i shows the running balance current_balance -
\* i * burn floored at 0, so never a negative balance; depletion_month is the
\* first month index whose running balance is <= 0 and is null when no month
\* of the horizon reaches <= 0.
C23_RunwayForecast ==
    Applied("generate_runway_forecast_chart") =>
        LET data == tool_result.data
            n == tool_call.forecast_months
            reached == {i \in 0..n : RunningBalance(i) <= 0}
        IN  /\ Len(data) = n + 1
            /\ \A i \in 0..n :
                  /\ data[i + 1].balance >= 0
                  /\ data[i + 1].balance
                         = (IF RunningBalance(i) > 0 THEN RunningBalance(i) ELSE 0)
            /\ reached = {} => tool_result.depletion_month = NoMonth
            /\ reached # {} =>
                  /\ tool_result.depletion_month \in reached
                  /\ \A i \in reached : tool_result.depletion_month <= i

C23_Witness ==
    /\ Applied("generate_runway_forecast_chart")
    /\ tool_call.current_balance = 3500000
    /\ tool_call.monthly_burn_rate = 1000000
    /\ tool_call.forecast_months = 12
    /\ tool_result.depletion_month = 4
    /\ tool_result.data[6].balance = 0

\* the functions of the financial calculator
CalculatorFunctions ==
    {"calculate_burn_rate", "calculate_runway", "analyze_spending_by_category",
     "calculate_balance", "calculate_growth_rate",
     "calculate_financial_health_score"}

\* C24: every function of the financial calculator returns a result and never
\* raises, on empty and degenerate input too: the burn rate of an empty list
\* is the all-zero metrics and no error, a spending analysis without expenses
\* has every percentage 0, a burn rate of zero gives the infinite runway, and
\* the growth rate of an empty list is 0 with insufficient_data.
C24_NeverRaises ==
    /\ \A name \in CalculatorFunctions :
          Applied(name) => "raised" \notin DOMAIN tool_result
    /\ Applied("calculate_burn_rate") /\ tool_call.transactions = << >> =>
          tool_result = [burn_rate |-> 0, avg_monthly_expenses |-> 0,
                         avg_monthly_income |-> 0, net_burn |-> 0,
                         period_months |-> tool_call.period_months,
                         transaction_count |-> 0]
    /\ Applied("analyze_spending_by_category") =>
          /\ "error" \notin DOMAIN tool_result
          /\ tool_result.total_expenses = 0 =>
                \A i \in DOMAIN tool_result.categories :
                    tool_result.categories[i].percentage = 0
    /\ Applied("calculate_runway") /\ tool_call.monthly_burn_rate = 0 =>
          /\ "error" \notin DOMAIN tool_result
          /\ tool_result.runway_months = Infinity
    /\ Applied("calculate_balance") =>
          /\ "error" \notin DOMAIN tool_result
          /\ tool_call.transactions = << >> =>
                tool_result.current_balance = tool_call.initial_capital
    /\ Applied("calculate_growth_rate") /\ tool_call.transactions = << >> =>
          /\ "error" \notin DOMAIN tool_result
          /\ tool_result.growth_rate = 0
    /\ Applied("calculate_financial_health_score") =>
          /\ "error" \notin DOMAIN tool_result
          /\ tool_result.health_score \in 15..100

\* the burn rate of an empty list has been computed
C24_Witness ==
    /\ Applied("calculate_burn_rate")
    /\ tool_call.transactions = << >>
    /\ tool_result.burn_rate = 0
    /\ tool_result.transaction_count = 0

\* the headline fields of the summary: the agent that owns each, and the
\* section and key of that agent's analysis it is read from
HeadlineFields ==
    {[field |-> "runway_months", agent |-> "runway_predictor",
      section |-> "runway", key |-> "runway_months"],
     [field |-> "current_balance", agent |-> "financial_analyst",
      section |-> "balance", key |-> "current_balance"],
     [field |-> "investment_readiness", agent |-> "investment_advisor",
      section |-> "readiness", key |-> "readiness"]}

\* the key of headline field h is present in the analysis of its agent
HasFact(h) ==
    /\ h.agent \in DOMAIN results.agents
    /\ "analysis" \in DOMAIN results.agents[h.agent]
    /\ h.section \in DOMAIN results.agents[h.agent].analysis
    /\ h.key \in DOMAIN results.agents[h.agent].analysis[h.section]

\* C25: the summary of a report holds a headline field (runway_months,
\* current_balance, investment_readiness) exactly when its key is present in
\* the analysis of the owning agent; it is omitted when the key or the
\* analysis is missing, as for a failed task.
C25_HeadlineFields ==
    "summary" \in DOMAIN report =>
        \A h \in HeadlineFields :
            h.field \in DOMAIN report.summary <=> HasFact(h)

\* C26: in the sequential workflow Runway Prediction is invoked with company
\* data that carries the analysis of its predecessor, Spending Analysis, as
\* Investment Advice is invoked with the analysis of Runway Prediction.
C26_RunwayReceivesAnalystFacts ==
    Sequential /\ task_args["runway_predictor"] # EmptyDict =>
        LET given == task_args["runway_predictor"].company_data
        IN  /\ "financial_analysis" \in DOMAIN given
            /\ given.financial_analysis
                   = Get(results.agents["financial_analyst"], "analysis", EmptyDict)

\* the arguments of every task of a parallel run that has not settled are the
\* caller's transactions and company data
SameInputs ==
    \A a \in Agents :
        Parallel /\ InFlight(a) =>
            /\ task_args[a].transactions = transactions
            /\ task_args[a].company_data = company_data

\* C27: no step of a run, sequential or parallel, changes the caller's
\* transaction list or company data, and the tasks of a parallel run that are
\* in flight together all hold these same inputs.
C27_InputsUnchanged ==
    [][/\ transactions' = transactions
       /\ company_data' = company_data
       /\ SameInputs']_vars

\* a parallel run has finished, all three tasks completed, on a list whose
\* transactions are not in date order
C27_Witness ==
    /\ Parallel
    /\ pc = "done"
    /\ CompletedTasks = Agents
    /\ Len(transactions) = 2
    /\ transactions[1].date > transactions[2].date

\* C28: for a balance > 0 and a burn rate > 0 the readiness is not_ready
\* whenever calculate_runway gives the same inputs the status critical (a
\* ratio below 3 months), also when runway_months rounds to 3.00: cautious or
\* ready never goes with a critical runway.
C28_CriticalIsNotReady ==
    /\ Applied("assess_financial_readiness")
    /\ tool_call.current_balance > 0
    /\ tool_call.monthly_burn_rate > 0
    /\ tool_result.runway_status = "critical"
    => tool_result.readiness = "not_ready"

\* C29: for every balance > 0 and burn rate > 0, however small the burn rate,
\* calculate_runway returns runway_months = balance / burn rate (rounded to
\* two places) together with a status, and never the error result with
\* runway_months 0, also when the depletion date is past the last date that
\* can be represented.
C29_RunwayOfPositiveBalance ==
    /\ Applied("calculate_runway")
    /\ tool_call.current_balance > 0
    /\ tool_call.monthly_burn_rate > 0
    => /\ "error" \notin DOMAIN tool_result
       /\ "status" \in DOMAIN tool_result
       /\ tool_result.runway_months
              = RoundDiv(tool_call.current_balance * 100,
                         tool_call.monthly_burn_rate)

\* the calls that access a session through get_session
AccessCalls == {"get_session", "add_message", "get_messages", "update_context",
                "get_context"}

\* session i is stored and its last access is older than the timeout
Expired(i) == i \in DOMAIN sessions /\ is_expired(sessions[i], now)

\* C30: a session whose last access is older than the timeout is expired: a
\* call of get_session, add_message, update_context or get_context on it
\* answers as for a missing session and leaves it removed, so no access
\* revives an expired session.
C30_ExpiredSessionIsGone ==
    [][\A i \in SessionIds :
          /\ Expired(i)
          /\ now' = now
          /\ session_return'.session_id = i
          /\ session_return'.op \in AccessCalls
          => /\ session_return'.found = FALSE
             /\ i \notin DOMAIN sessions']_vars
=============================================================================
